---- MODULE Spec2Model ----
(***************************************************************************)
(* Model of the change-detection pipeline of JP_Radio_Act_jasonld:         *)
(* diff_checker.py (LawDiffChecker, main) and the --diff branch of         *)
(* validate_radio_act_xml.py.                                              *)
(*                                                                         *)
(* The data directory is a map from file names to file contents.  A diff   *)
(* run (check_japanese_law_diff / check_english_law_diff) is a sequence of *)
(* steps, one action per statement group of the method; pc is the position *)
(* of the run in progress.  Python's None is the string None; the strings  *)
(* of the program that are not ASCII are written in English and the        *)
(* original is given in the comment of the definition.                     *)
(***************************************************************************)
EXTENDS Integers, Sequences, FiniteSets, TLC

(***************************************************************************)
(* Bounds of the model.                                                    *)
(***************************************************************************)
\* Number of diff runs in a behaviour; a call of check_all_diffs makes two.
MaxRuns == 2
\* The retrieval collaborator delivers one of the first NumDocs documents of Catalog.
NumDocs == 3
\* load_xml_files reads one of the first NumJaDocs documents of JaCatalog and one of
\* the first NumEnDocs documents of EnCatalog, at most MaxLoads times in a behaviour.
NumJaDocs == 4
NumEnDocs == 3
MaxLoads == 1

(***************************************************************************)
(* Python values.                                                          *)
(***************************************************************************)
None == "<None>"

\* bool(x) for the values the diff run tests: None and the empty string are false.
Truthy(x) == x /= None /\ x /= ""

(***************************************************************************)
(* XML documents.  A document is well formed or not (wf), may start with a *)
(* byte-order mark (bom), is pretty-printed or not (pretty), and holds its *)
(* elements in document order; an element is <<tag, text>>.  A tag is the  *)
(* sequence of the words of its name, so that str.endswith is a suffix     *)
(* test on sequences.                                                      *)
(***************************************************************************)
LawNum == <<"Law", "Num">>
LawName == <<"Law", "Name">>
EnactDate == <<"Enact", "Date">>
EnforcementDate == <<"Enforcement", "Date">>

\* tag.endswith(suffix)
EndsWith(tag, suffix) ==
    /\ Len(tag) >= Len(suffix)
    /\ SubSeq(tag, Len(tag) - Len(suffix) + 1, Len(tag)) = suffix

Doc(wf, bom, elems) == [wf |-> wf, bom |-> bom, pretty |-> FALSE, elems |-> elems]

\* What the two sources can deliver.  Catalog[2] changes the law number of
\* Catalog[1] (given twice, <OldLawNum> first), adds a law name and has an empty
\* <EnforcementDate/>.  Catalog[3] is an empty body, which is not XML.  Catalog[4]
\* is Catalog[1] with a byte-order mark.  Catalog[5] differs from Catalog[1] in its
\* body only.
Catalog ==
    << Doc(TRUE, FALSE, << <<LawNum, "131">>, <<EnactDate, "1950-05-02">> >>),
       Doc(TRUE, FALSE, << <<<<"Old", "Law", "Num">>, "131">>, <<LawNum, "132">>,
                           <<LawName, "Radio Act">>, <<EnactDate, "1950-05-02">>,
                           <<EnforcementDate, None>> >>),
       Doc(FALSE, FALSE, << >>),
       Doc(TRUE, TRUE, << <<LawNum, "131">>, <<EnactDate, "1950-05-02">> >>),
       Doc(TRUE, FALSE, << <<LawNum, "131">>, <<EnactDate, "1950-05-02">>,
                           <<<<"Sentence">>, "text">> >>),
       Doc(FALSE, TRUE, << >>) >>

RawDocs == {Catalog[i] : i \in 1..NumDocs}

\* The bytes of a file, as a string: what _calculate_file_hash reads.
RECURSIVE TagName(_)
TagName(tag) == IF tag = << >> THEN "" ELSE Head(tag) \o TagName(Tail(tag))

RECURSIVE ElemBytes(_)
ElemBytes(elems) ==
    IF elems = << >> THEN ""
    ELSE LET e == Head(elems)
         IN (IF e[2] = None
                THEN "<" \o TagName(e[1]) \o "/>"
                ELSE "<" \o TagName(e[1]) \o ">" \o e[2] \o "</" \o TagName(e[1]) \o ">")
            \o ElemBytes(Tail(elems))

Bytes(doc) ==
    (IF doc.bom THEN "BOM" ELSE "")
    \o (IF doc.pretty THEN "<?xml?>\n" ELSE "")
    \o (IF doc.wf THEN "<Law>" \o ElemBytes(doc.elems) \o "</Law>" ELSE "")

(***************************************************************************)
(* The data directory.                                                     *)
(***************************************************************************)
Sources == {"ja", "en"}

SourceName(s) == IF s = "ja" THEN "Japanese Law" ELSE "English Law"

\* existing_file = self.data_dir / "RadioAct_ja.xml" (and "RadioAct_en.xml")
ExistingFile(s) == IF s = "ja" THEN "RadioAct_ja.xml" ELSE "RadioAct_en.xml"

\* the filename handed to _download_file
TempFile(s) == IF s = "ja" THEN "RadioAct_ja_temp.xml" ELSE "RadioAct_en_temp.xml"

\* file_path.with_name(file_path.stem + '.normalized' + file_path.suffix)
NormalizedPath(path) ==
    CASE path = "RadioAct_ja_temp.xml" -> "RadioAct_ja_temp.normalized.xml"
      [] path = "RadioAct_en_temp.xml" -> "RadioAct_en_temp.normalized.xml"
      [] path = "RadioAct_ja.xml" -> "RadioAct_ja.normalized.xml"
      [] path = "RadioAct_en.xml" -> "RadioAct_en.normalized.xml"

\* self.cache_file
CacheFile == "diff_cache.json"

FileNames ==
    {ExistingFile(s) : s \in Sources} \cup {TempFile(s) : s \in Sources}
    \cup {NormalizedPath(TempFile(s)) : s \in Sources} \cup {CacheFile}

\* The files a diff run of source s works on.
FilesOf(s) == {ExistingFile(s), TempFile(s), NormalizedPath(TempFile(s))}

Absent == [exists |-> FALSE]

\* Path.exists()
Exists(fs, path) == fs[path] /= Absent

(***************************************************************************)
(* The helpers of LawDiffChecker, as functions of the directory.           *)
(***************************************************************************)
\* The MD5 hex digest of a byte string; no two byte strings collide.
Md5(bytes) == "md5(" \o bytes \o ")"

\* CalculateFileHash testing the bytes read for truth as well as the path.
CalculateFileHashOfNonEmpty(fs, path) ==
    IF ~Exists(fs, path) \/ Bytes(fs[path]) = "" THEN "" ELSE Md5(Bytes(fs[path]))

\* _calculate_file_hash, lines 80-89.
CalculateFileHash(fs, path) ==
    IF ~Exists(fs, path) THEN "" ELSE Md5(Bytes(fs[path]))

\* What toprettyxml writes for a parsed document, the byte-order mark removed.
Normalized(doc) == [wf |-> TRUE, bom |-> FALSE, pretty |-> TRUE, elems |-> doc.elems]

\* _normalize_xml: the path it returns.  A document that does not parse raises
\* inside the method, which then returns the path it was given.
NormalizeXmlPath(fs, path) ==
    IF Exists(fs, path) /\ fs[path].wf THEN NormalizedPath(path) ELSE path

\* _normalize_xml: the directory after it.
NormalizeXmlFiles(fs, path) ==
    IF Exists(fs, path) /\ fs[path].wf
        THEN [fs EXCEPT ![NormalizedPath(path)] = Normalized(fs[path])]
        ELSE fs

\* The key an element sets in _extract_metadata (the if/elif chain), or None.
MetadataKey(tag) ==
    IF EndsWith(tag, LawNum) THEN "law_number"
    ELSE IF EndsWith(tag, LawName) THEN "law_name"
    ELSE IF EndsWith(tag, EnactDate) THEN "enact_date"
    ELSE IF EndsWith(tag, EnforcementDate) THEN "enforcement_date"
    ELSE None

\* The loop of _extract_metadata over root.iter(): a later element overwrites.
RECURSIVE MetadataLoop(_, _)
MetadataLoop(elems, metadata) ==
    IF elems = << >> THEN metadata
    ELSE LET key == MetadataKey(Head(elems)[1])
             text == Head(elems)[2]
         IN MetadataLoop(Tail(elems),
                IF key = None THEN metadata
                ELSE [k \in DOMAIN metadata \cup {key} |->
                        IF k = key THEN text ELSE metadata[k]])

EmptyDict == [k \in {} |-> None]

\* _extract_metadata: a file that is missing or does not parse gives {}.
ExtractMetadata(fs, path) ==
    IF Exists(fs, path) /\ fs[path].wf
        THEN MetadataLoop(fs[path].elems, EmptyDict)
        ELSE EmptyDict

\* dict.get(key)
Get(dict, key) == IF key \in DOMAIN dict THEN dict[key] ELSE None

(***************************************************************************)
(* The entries of DiffResult.changes and the error strings.                *)
(***************************************************************************)
\* "ハッシュ値が変更されました" (the hash value has changed)
HashChanged == <<"hash value changed">>
\* "変更なし" (no change)
NoChange == <<"no change">>
\* "初回ダウンロード" (first download)
InitialDownload == <<"initial download">>
\* "ダウンロードに失敗" (download failed)
DownloadFailed == "download failed"
\* str(e) of an OSError raised by unlink or rename
OsError == "OSError"

\* f"メタデータ '{key}' が変更: {old_metadata.get(key)} → {new_metadata.get(key)}"
MetadataChange(key, old, new) == <<"metadata", key, "changed:", old, "->", new>>

\* ChangedKeys over the keys both documents have (& for | in line 221).
ChangedKeysOfIntersection(old_metadata, new_metadata) ==
    {key \in DOMAIN old_metadata \cap DOMAIN new_metadata :
        Get(old_metadata, key) /= Get(new_metadata, key)}

\* The keys the loop of lines 221-223 appends an entry for.
ChangedKeys(old_metadata, new_metadata) ==
    {key \in DOMAIN old_metadata \cup DOMAIN new_metadata :
        Get(old_metadata, key) /= Get(new_metadata, key)}

\* The orders in which a set can be iterated.
Orders(S) == {o \in [1..Cardinality(S) -> S] : \A x \in S : \E i \in DOMAIN o : o[i] = x}

\* The entries that loop appends when it meets the keys in the order o.
MetadataChanges(old_metadata, new_metadata, o) ==
    [i \in DOMAIN o |->
        MetadataChange(o[i], Get(old_metadata, o[i]), Get(new_metadata, o[i]))]

(***************************************************************************)
(* State.                                                                  *)
(***************************************************************************)
VARIABLES
    files,            \* the data directory: file name -> content, or Absent
    cache,            \* self.cache of the checker
    clock,            \* the number of datetime.now() calls so far
    entry,            \* the entry point being executed, or "idle"
    pc,               \* the position of the diff run in progress
    cur,              \* the source of the diff run in progress
    result,           \* the DiffResult the run is building
    temp_file,        \* local temp_file of the run
    normalized_temp,  \* local normalized_temp of the run
    results,          \* local results of check_all_diffs
    ret,              \* what the last entry point returned
    runs,             \* diff runs begun so far
    snap0,            \* history: the snapshot file's content when the run began
    cand0,            \* history: the candidate's content when it was normalized
    dir0,             \* history: the data directory when the entry point was called
    prev              \* history: per source, the record its last finished run returned

\* The state of the diff checker and its callers.
dvars == <<files, cache, clock, entry, pc, cur, result, temp_file, normalized_temp,
           results, ret, runs, snap0, cand0, dir0, prev>>

VARIABLES
    japanese_xml,     \* self.japanese_xml of the ELI converter
    english_xml,      \* self.english_xml
    structured_xml,   \* self.structured_xml
    eli_files,        \* the two output files of the converter
    eli_ret,          \* what the last call on the converter returned
    loads,            \* load_xml_files calls so far
    ja0,              \* history: the Japanese document structured_xml was built from
    en0               \* history: the English document of the last linking

\* The state of the ELI converter.
evars == <<japanese_xml, english_xml, structured_xml, eli_files, eli_ret, loads, ja0,
           en0>>

vars == <<dvars, evars>>

\* None as the value of an attribute that holds an element tree or nothing.
NoXml == [loaded |-> FALSE]
NoStructured == [built |-> FALSE]
NoEliReturn == [kind |-> "none", of |-> None]

\* ELIConverter.__init__
NewConverter ==
    /\ japanese_xml = NoXml
    /\ english_xml = NoXml
    /\ structured_xml = NoStructured
    /\ eli_files = [structured |-> Absent, jsonld |-> Absent]
    /\ eli_ret = NoEliReturn
    /\ loads = 0
    /\ ja0 = NoXml
    /\ en0 = NoXml

\* The snapshot file of a source at the start: none, or what an earlier run left.
InitialSnapshots == {Absent, Normalized(Catalog[1])}

NoRecord == [source |-> None]
NoReturn == [kind |-> "none"]
Corrupt == [ok |-> FALSE]

\* _load_cache: the cache file's document, or {} when it is missing or unreadable.
LoadCache(fs) ==
    IF Exists(fs, CacheFile) /\ fs[CacheFile].ok THEN fs[CacheFile].data ELSE EmptyDict

Init ==
    /\ \E ja \in InitialSnapshots, en \in InitialSnapshots :
          files = [n \in FileNames |->
                      IF n = ExistingFile("ja") THEN ja
                      ELSE IF n = ExistingFile("en") THEN en
                      ELSE Absent]
    /\ cache = LoadCache(files)
    /\ clock = 0
    /\ entry = "idle"
    /\ pc = "idle"
    /\ cur = None
    /\ result = NoRecord
    /\ temp_file = None
    /\ normalized_temp = None
    /\ results = << >>
    /\ ret = NoReturn
    /\ runs = 0
    /\ snap0 = Absent
    /\ cand0 = Absent
    /\ dir0 = files
    /\ prev = [s \in Sources |-> NoRecord]
    /\ NewConverter

\* A cache file whose JSON document is not an object (it is the array []): json.load
\* returns it as it is.  Written as a map on a key no cache has.
JsonArray == [k \in {"[]"} |-> None]

\* self.cache supports self.cache['last_check'] = ...
IsDict(c) == c /= JsonArray

\* The record of a run whose download failed, begun at time now.
FailedRecord(s, now) ==
    [source |-> SourceName(s), timestamp |-> now, has_changes |-> FALSE,
     old_hash |-> None, new_hash |-> None, changes |-> << >>, error |-> DownloadFailed]

\* The cache an earlier process left: its check_all_diffs call, in which both
\* downloads failed, ended at time -1.
EarlierCache ==
    [k \in {"last_check"} |->
        [timestamp |-> -1,
         results |-> <<FailedRecord("ja", -3), FailedRecord("en", -2)>>]]

\* The cache file at the start: none, one that does not parse, the array [], or
\* the one an earlier process wrote.
InitialCacheFiles ==
    {Absent, Corrupt, [ok |-> TRUE, data |-> JsonArray],
     [ok |-> TRUE, data |-> EarlierCache]}

\* Init with a cache file in the data directory: the checker is constructed on it.
InitCache ==
    /\ \E ja \in InitialSnapshots, en \in InitialSnapshots, c \in InitialCacheFiles :
          files = [n \in FileNames |->
                      IF n = ExistingFile("ja") THEN ja
                      ELSE IF n = ExistingFile("en") THEN en
                      ELSE IF n = CacheFile THEN c
                      ELSE Absent]
    /\ cache = LoadCache(files)
    /\ clock = 0
    /\ entry = "idle"
    /\ pc = "idle"
    /\ cur = None
    /\ result = NoRecord
    /\ temp_file = None
    /\ normalized_temp = None
    /\ results = << >>
    /\ ret = NoReturn
    /\ runs = 0
    /\ snap0 = Absent
    /\ cand0 = Absent
    /\ dir0 = files
    /\ prev = [s \in Sources |-> NoRecord]
    /\ NewConverter

(***************************************************************************)
(* A diff run: check_japanese_law_diff and check_english_law_diff.  The two *)
(* methods have the same text but for the source name and the file names,  *)
(* so each step is written once, with the source as parameter.             *)
(***************************************************************************)
\* StartRun with "RadioAct_ja.xml" left in the English method: the old hash is
\* that of the Japanese snapshot for either source.
StartRunHashingJapanese(s) ==
    /\ result' = [source |-> SourceName(s),
                  timestamp |-> clock,
                  has_changes |-> FALSE,
                  old_hash |-> IF Exists(files, ExistingFile("ja"))
                                  THEN CalculateFileHash(files, ExistingFile("ja"))
                                  ELSE None,
                  new_hash |-> None,
                  changes |-> << >>,
                  error |-> None]
    /\ clock' = clock + 1
    /\ runs' = runs + 1
    /\ cur' = s
    /\ pc' = "download"
    /\ temp_file' = None
    /\ normalized_temp' = None
    /\ snap0' = files[ExistingFile(s)]
    /\ cand0' = Absent

\* Lines 181-195: the fresh DiffResult and the hash of the existing file.
StartRun(s) ==
    /\ result' = [source |-> SourceName(s),
                  timestamp |-> clock,
                  has_changes |-> FALSE,
                  old_hash |-> IF Exists(files, ExistingFile(s))
                                  THEN CalculateFileHash(files, ExistingFile(s))
                                  ELSE None,
                  new_hash |-> None,
                  changes |-> << >>,
                  error |-> None]
    /\ clock' = clock + 1
    /\ runs' = runs + 1
    /\ cur' = s
    /\ pc' = "download"
    /\ temp_file' = None
    /\ normalized_temp' = None
    /\ snap0' = files[ExistingFile(s)]
    /\ cand0' = Absent

\* Download with "RadioAct_ja_temp.xml" left in the English method.
DownloadToJapaneseTemp(s) ==
    /\ pc = "download" /\ cur = s
    /\ \E d \in RawDocs : files' = [files EXCEPT ![TempFile("ja")] = d]
    /\ temp_file' = TempFile("ja")
    /\ pc' = "normalize"
    /\ UNCHANGED <<evars, cache, clock, entry, cur, result, normalized_temp, results, ret,
                   runs, snap0, cand0, dir0, prev>>

\* Lines 198-199, _download_file returning the path: the response body is written.
Download(s) ==
    /\ pc = "download" /\ cur = s
    /\ \E d \in RawDocs : files' = [files EXCEPT ![TempFile(s)] = d]
    /\ temp_file' = TempFile(s)
    /\ pc' = "normalize"
    /\ UNCHANGED <<evars, cache, clock, entry, cur, result, normalized_temp, results, ret,
                   runs, snap0, cand0, dir0, prev>>

\* DownloadFails without line 200: the failure is not recorded.
DownloadFailsUnrecorded(s) ==
    /\ pc = "download" /\ cur = s
    /\ temp_file' = None
    /\ pc' = "return"
    /\ UNCHANGED <<evars, files, cache, clock, entry, cur, result, normalized_temp, results, ret,
                   runs, snap0, cand0, dir0, prev>>

\* Lines 198-201, _download_file returning None: the run returns at once.
DownloadFails(s) ==
    /\ pc = "download" /\ cur = s
    /\ temp_file' = None
    /\ result' = [result EXCEPT !.error = DownloadFailed]
    /\ pc' = "return"
    /\ UNCHANGED <<evars, files, cache, clock, entry, cur, normalized_temp, results, ret,
                   runs, snap0, cand0, dir0, prev>>

\* Lines 204-205.
Normalize(s) ==
    /\ pc = "normalize" /\ cur = s
    /\ LET path == NormalizeXmlPath(files, temp_file)
           fs == NormalizeXmlFiles(files, temp_file)
       IN /\ normalized_temp' = path
          /\ files' = fs
          /\ result' = [result EXCEPT !.new_hash = CalculateFileHash(fs, path)]
          /\ cand0' = fs[path]
    /\ pc' = "compare"
    /\ UNCHANGED <<evars, cache, clock, entry, cur, temp_file, results, ret, runs, snap0, dir0,
                   prev>>

\* Compared reading the old metadata where the snapshot is after its replacement:
\* from the candidate.
ComparedAfterReplacement(r, fs, s, norm, o) ==
    IF Truthy(r.old_hash) /\ Truthy(r.new_hash)
    THEN IF r.old_hash /= r.new_hash
         THEN LET old_metadata == ExtractMetadata(fs, norm)
                  new_metadata == ExtractMetadata(fs, norm)
              IN [r EXCEPT !.has_changes = TRUE,
                           !.changes = <<HashChanged>>
                               \o MetadataChanges(old_metadata, new_metadata, o)]
         ELSE [r EXCEPT !.changes = Append(r.changes, NoChange)]
    ELSE [r EXCEPT !.changes = Append(r.changes, InitialDownload)]

\* Compared with the test of line 208 left out: a missing hash counts as a hash.
ComparedWithoutPresenceTest(r, fs, s, norm, o) ==
    IF r.old_hash /= r.new_hash
    THEN [r EXCEPT !.has_changes = TRUE,
                   !.changes = <<HashChanged>>
                       \o MetadataChanges(ExtractMetadata(fs, ExistingFile(s)),
                                          ExtractMetadata(fs, norm), o)]
    ELSE [r EXCEPT !.changes = Append(r.changes, NoChange)]

\* Compared with has_changes left as it was in the branch of line 209.
ComparedWithoutFlag(r, fs, s, norm, o) ==
    IF Truthy(r.old_hash) /\ Truthy(r.new_hash)
    THEN IF r.old_hash /= r.new_hash
         THEN [r EXCEPT !.changes = <<HashChanged>>
                   \o MetadataChanges(ExtractMetadata(fs, ExistingFile(s)),
                                      ExtractMetadata(fs, norm), o)]
         ELSE [r EXCEPT !.changes = Append(r.changes, NoChange)]
    ELSE [r EXCEPT !.changes = Append(r.changes, InitialDownload)]

\* Compared with the flag raised in the branch of equal hashes too.
ComparedFlaggingEqualHashes(r, fs, s, norm, o) ==
    IF Truthy(r.old_hash) /\ Truthy(r.new_hash)
    THEN IF r.old_hash /= r.new_hash
         THEN [r EXCEPT !.has_changes = TRUE,
                        !.changes = <<HashChanged>>
                            \o MetadataChanges(ExtractMetadata(fs, ExistingFile(s)),
                                               ExtractMetadata(fs, norm), o)]
         ELSE [r EXCEPT !.has_changes = TRUE,
                        !.changes = Append(r.changes, NoChange)]
    ELSE [r EXCEPT !.changes = Append(r.changes, InitialDownload)]

\* Lines 208-227: the record after the comparison, the keys met in the order o.
Compared(r, fs, s, norm, o) ==
    IF Truthy(r.old_hash) /\ Truthy(r.new_hash)
    THEN IF r.old_hash /= r.new_hash
         THEN LET old_metadata == IF Exists(fs, ExistingFile(s))
                                     THEN ExtractMetadata(fs, ExistingFile(s))
                                     ELSE EmptyDict
                  new_metadata == ExtractMetadata(fs, norm)
              IN [r EXCEPT !.has_changes = TRUE,
                           !.changes = <<HashChanged>>
                               \o MetadataChanges(old_metadata, new_metadata, o)]
         ELSE [r EXCEPT !.changes = Append(r.changes, NoChange)]
    ELSE [r EXCEPT !.changes = Append(r.changes, InitialDownload)]

\* The iteration orders of set(old_metadata.keys()) | set(new_metadata.keys()),
\* as far as they show: the orders of the keys that get an entry.
KeyOrders(fs, s, norm) ==
    Orders(ChangedKeys(IF Exists(fs, ExistingFile(s))
                          THEN ExtractMetadata(fs, ExistingFile(s))
                          ELSE EmptyDict,
                       ExtractMetadata(fs, norm)))

\* Lines 230-231: where the run goes after the comparison.
AfterCompare(r, fs, s) ==
    IF Truthy(r.error) THEN "return"
    ELSE IF Exists(fs, ExistingFile(s)) THEN "unlink_existing"
    ELSE "rename"

\* Lines 208-231.
Compare(s) ==
    /\ pc = "compare" /\ cur = s
    /\ \E o \in KeyOrders(files, s, normalized_temp) :
          result' = Compared(result, files, s, normalized_temp, o)
    /\ pc' = AfterCompare(result', files, s)
    /\ UNCHANGED <<evars, files, cache, clock, entry, cur, temp_file, normalized_temp, results,
                   ret, runs, snap0, cand0, dir0, prev>>

\* Line 232: existing_file.unlink()
UnlinkExisting(s) ==
    /\ pc = "unlink_existing" /\ cur = s
    /\ files' = [files EXCEPT ![ExistingFile(s)] = Absent]
    /\ pc' = "rename"
    /\ UNCHANGED <<evars, cache, clock, entry, cur, result, temp_file, normalized_temp, results,
                   ret, runs, snap0, cand0, dir0, prev>>

\* Path.rename(target): the directory after it.
Renamed(fs, from, to) ==
    IF from = to THEN fs ELSE [fs EXCEPT ![to] = fs[from], ![from] = Absent]

\* Rename moving the downloaded file instead of the normalized one.
RenameOfTempFile(s) ==
    /\ pc = "rename" /\ cur = s
    /\ files' = Renamed(files, temp_file, ExistingFile(s))
    /\ pc' = "unlink_temp"
    /\ UNCHANGED <<evars, cache, clock, entry, cur, result, temp_file, normalized_temp, results,
                   ret, runs, snap0, cand0, dir0, prev>>

\* Line 233: normalized_temp.rename(existing_file)
Rename(s) ==
    /\ pc = "rename" /\ cur = s
    /\ files' = Renamed(files, normalized_temp, ExistingFile(s))
    /\ pc' = "unlink_temp"
    /\ UNCHANGED <<evars, cache, clock, entry, cur, result, temp_file, normalized_temp, results,
                   ret, runs, snap0, cand0, dir0, prev>>

\* Line 234: temp_file.unlink(missing_ok=True)
UnlinkTemp(s) ==
    /\ pc = "unlink_temp" /\ cur = s
    /\ files' = [files EXCEPT ![temp_file] = Absent]
    /\ pc' = "return"
    /\ UNCHANGED <<evars, cache, clock, entry, cur, result, temp_file, normalized_temp, results,
                   ret, runs, snap0, cand0, dir0, prev>>

\* Lines 236-238: unlink or rename raises OSError; the handler records str(e).
Raises(s, at) ==
    /\ pc = at /\ cur = s
    /\ result' = [result EXCEPT !.error = OsError]
    /\ pc' = "return"
    /\ UNCHANGED <<evars, files, cache, clock, entry, cur, temp_file, normalized_temp, results,
                   ret, runs, snap0, cand0, dir0, prev>>

UnlinkExistingRaises(s) == Raises(s, "unlink_existing")
RenameRaises(s) == Raises(s, "rename")
UnlinkTempRaises(s) == Raises(s, "unlink_temp")

(***************************************************************************)
(* Entry points.                                                           *)
(***************************************************************************)
\* The entry points that run check_all_diffs.
AllEntries == {"all", "diff_main", "validate_main"}

\* A call of check_japanese_law_diff or check_english_law_diff on the checker.
CallSingle(s) ==
    /\ entry = "idle" /\ runs < MaxRuns
    /\ entry' = s
    /\ ret' = NoReturn
    /\ results' = << >>
    /\ dir0' = files
    /\ StartRun(s)
    /\ UNCHANGED <<evars, files, cache, prev>>

CallJapanese == CallSingle("ja")
CallEnglish == CallSingle("en")

\* A call of check_all_diffs on the checker: lines 309-312.
CallAll ==
    /\ entry = "idle" /\ runs + 1 < MaxRuns
    /\ entry' = "all"
    /\ ret' = NoReturn
    /\ results' = << >>
    /\ dir0' = files
    /\ StartRun("ja")
    /\ UNCHANGED <<evars, files, cache, prev>>

\* diff_checker.main, lines 383-384, and validate_radio_act_xml.main called with
\* --diff alone, lines 181-182: a new checker (its cache loaded), check_all_diffs.
CallMain(e) ==
    /\ entry = "idle" /\ runs + 1 < MaxRuns
    /\ entry' = e
    /\ ret' = NoReturn
    /\ results' = << >>
    /\ cache' = LoadCache(files)
    /\ dir0' = files
    /\ StartRun("ja")
    /\ UNCHANGED <<evars, files, prev>>

CallDiffMain == CallMain("diff_main")
CallValidateMain == CallMain("validate_main")

\* Line 240 (305), the method called directly: the record goes to the caller.
ReturnSingle(s) ==
    /\ pc = "return" /\ cur = s /\ entry = s
    /\ ret' = [kind |-> "record", of |-> entry, val |-> result]
    /\ prev' = [prev EXCEPT ![s] = result]
    /\ entry' = "idle"
    /\ pc' = "idle"
    /\ UNCHANGED <<evars, files, cache, clock, cur, result, temp_file, normalized_temp, results,
                   runs, snap0, cand0, dir0>>

\* ReturnJapaneseToAll giving up on the English run when the Japanese one failed.
ReturnJapaneseToAllStoppingOnError ==
    /\ pc = "return" /\ cur = "ja" /\ entry \in AllEntries
    /\ results' = Append(results, result)
    /\ prev' = [prev EXCEPT !["ja"] = result]
    /\ IF Truthy(result.error)
          THEN /\ pc' = "save"
               /\ UNCHANGED <<evars, clock, runs, cur, result, temp_file, normalized_temp, snap0,
                              cand0>>
          ELSE StartRun("en")
    /\ UNCHANGED <<evars, files, cache, entry, ret, dir0>>

\* Lines 312-316: the Japanese record is appended and the English run begins.
ReturnJapaneseToAll ==
    /\ pc = "return" /\ cur = "ja" /\ entry \in AllEntries
    /\ results' = Append(results, result)
    /\ prev' = [prev EXCEPT !["ja"] = result]
    /\ StartRun("en")
    /\ UNCHANGED <<evars, files, cache, entry, ret, dir0>>

\* Lines 316-317: the English record is appended.
ReturnEnglishToAll ==
    /\ pc = "return" /\ cur = "en" /\ entry \in AllEntries
    /\ results' = Append(results, result)
    /\ prev' = [prev EXCEPT !["en"] = result]
    /\ pc' = "save"
    /\ UNCHANGED <<evars, files, cache, clock, entry, cur, result, temp_file, normalized_temp,
                   ret, runs, snap0, cand0, dir0>>

\* LastCheck appending to the results of the entry it finds.
LastCheckKeepingEarlier(c, now, rs) ==
    [k \in DOMAIN c \cup {"last_check"} |->
        IF k = "last_check"
        THEN [timestamp |-> now,
              results |-> IF "last_check" \in DOMAIN c
                             THEN c["last_check"].results \o rs
                             ELSE rs]
        ELSE c[k]]

\* Lines 320-323: self.cache['last_check'] = {...}
LastCheck(c, now, rs) ==
    [k \in DOMAIN c \cup {"last_check"} |->
        IF k = "last_check" THEN [timestamp |-> now, results |-> rs] ELSE c[k]]

\* Lines 324-326: where check_all_diffs returns to.
AllReturns ==
    /\ clock' = clock + 1
    /\ IF entry = "all"
          THEN /\ ret' = [kind |-> "list", of |-> entry, val |-> results]
               /\ entry' = "idle"
               /\ pc' = "idle"
          ELSE /\ ret' = ret
               /\ entry' = entry
               /\ pc' = "exit"
    /\ UNCHANGED <<evars, cur, result, temp_file, normalized_temp, results, runs, snap0, cand0,
                   dir0, prev>>

\* Lines 320-326, _save_cache writing the file.
SaveCache ==
    /\ pc = "save" /\ IsDict(cache)
    /\ cache' = LastCheck(cache, clock, results)
    /\ files' = [files EXCEPT ![CacheFile] = [ok |-> TRUE, data |-> cache']]
    /\ AllReturns

\* Lines 320-326, _save_cache failing (the exception is logged): open() fails and
\* the file is as it was, or the write stops and the file is not a JSON document.
SaveCacheFails ==
    /\ pc = "save" /\ IsDict(cache)
    /\ cache' = LastCheck(cache, clock, results)
    /\ \/ files' = files
       \/ files' = [files EXCEPT ![CacheFile] = Corrupt]
    /\ AllReturns

\* Line 320 on a cache that is not a dict: the item assignment raises TypeError,
\* which check_all_diffs does not catch.
LastCheckRaises ==
    /\ pc = "save" /\ ~IsDict(cache)
    /\ pc' = "raised"
    /\ UNCHANGED <<evars, files, cache, clock, entry, cur, result, temp_file, normalized_temp,
                   results, ret, runs, snap0, cand0, dir0, prev>>

\* The exception leaves check_all_diffs and diff_checker.main (lines 383-384);
\* validate_radio_act_xml.main catches it and returns 1 (lines 204-207).
Propagates ==
    /\ pc = "raised"
    /\ ret' = IF entry = "validate_main"
                 THEN [kind |-> "exit", of |-> entry, val |-> 1]
                 ELSE [kind |-> "raise", of |-> entry, val |-> "TypeError"]
    /\ entry' = "idle"
    /\ pc' = "idle"
    /\ UNCHANGED <<evars, files, cache, clock, cur, result, temp_file, normalized_temp, results,
                   runs, snap0, cand0, dir0, prev>>

\* all() for any()
AllChanges(rs) == \A i \in DOMAIN rs : rs[i].has_changes

\* any(result.has_changes for result in results)
AnyChanges(rs) == \E i \in DOMAIN rs : rs[i].has_changes

\* diff_checker.main, lines 390-392.
DiffMainExitCode(rs) == IF AnyChanges(rs) THEN 1 ELSE 0

\* validate_radio_act_xml.main, lines 188-199.
ValidateMainExitCode(rs, success_count, total_count) ==
    IF AnyChanges(rs) THEN 1
    ELSE IF success_count = total_count THEN 0
    ELSE 1

DiffMainExit ==
    /\ pc = "exit" /\ entry = "diff_main"
    /\ ret' = [kind |-> "exit", of |-> entry, val |-> DiffMainExitCode(results)]
    /\ entry' = "idle"
    /\ pc' = "idle"
    /\ UNCHANGED <<evars, files, cache, clock, cur, result, temp_file, normalized_temp, results,
                   runs, snap0, cand0, dir0, prev>>

\* With --diff alone success_count and total_count are both 0 (lines 122-146).
ValidateMainExit ==
    /\ pc = "exit" /\ entry = "validate_main"
    /\ ret' = [kind |-> "exit", of |-> entry,
               val |-> ValidateMainExitCode(results, 0, 0)]
    /\ entry' = "idle"
    /\ pc' = "idle"
    /\ UNCHANGED <<evars, files, cache, clock, cur, result, temp_file, normalized_temp, results,
                   runs, snap0, cand0, dir0, prev>>

(***************************************************************************)
(* Specifications.  SpecNoExc is the program in an environment where the   *)
(* file-system calls of the replacement and of _save_cache succeed; Spec  *)
(* adds the runs in which one of them raises.                              *)
(***************************************************************************)
RunStep(s) ==
    \/ Download(s)
    \/ DownloadFails(s)
    \/ Normalize(s)
    \/ Compare(s)
    \/ UnlinkExisting(s)
    \/ Rename(s)
    \/ UnlinkTemp(s)
    \/ ReturnSingle(s)

RunRaises(s) ==
    \/ UnlinkExistingRaises(s)
    \/ RenameRaises(s)
    \/ UnlinkTempRaises(s)

CallerStep ==
    \/ CallJapanese
    \/ CallEnglish
    \/ CallAll
    \/ CallDiffMain
    \/ CallValidateMain
    \/ ReturnJapaneseToAll
    \/ ReturnEnglishToAll
    \/ SaveCache
    \/ DiffMainExit
    \/ ValidateMainExit

NextNoExc == CallerStep \/ \E s \in Sources : RunStep(s)

Next == NextNoExc \/ SaveCacheFails \/ \E s \in Sources : RunRaises(s)

SpecNoExc == Init /\ [][NextNoExc]_vars

\* The checker constructed on a data directory that holds a cache file; the
\* replacement's file-system calls succeed, _save_cache may fail.
NextCache == NextNoExc \/ SaveCacheFails \/ LastCheckRaises \/ Propagates

SpecCache == InitCache /\ [][NextCache]_vars

Spec == Init /\ [][Next]_vars

(***************************************************************************)
(* The ELI converter (eli_converter.py).  Texts are strings; the value of  *)
(* a date attribute is the sequence of its characters.  Japanese strings   *)
(* are written in ASCII: "Dai<n>jou" stands for the default title of       *)
(* article n, "Denpahou" for the default law name.                         *)
(***************************************************************************)
\* find() found no such element.
NoElem == "<no element>"
\* get() found no such attribute.
NoAttr == <<"<no attribute>">>

\* str.strip() on the texts of the documents below.
Strip(s) ==
    CASE s = " s2 " -> "s2"
      [] s = "   " -> ""
      [] OTHER -> s

\* sep.join(parts)
RECURSIVE Join(_, _)
Join(sep, parts) ==
    IF parts = << >> THEN ""
    ELSE IF Len(parts) = 1 THEN parts[1]
    ELSE parts[1] \o sep \o Join(sep, Tail(parts))

Digit == {"0", "1", "2", "3", "4", "5", "6", "7", "8", "9"}

DigitValue(c) ==
    CASE c = "0" -> 0 [] c = "1" -> 1 [] c = "2" -> 2 [] c = "3" -> 3 [] c = "4" -> 4
      [] c = "5" -> 5 [] c = "6" -> 6 [] c = "7" -> 7 [] c = "8" -> 8 [] c = "9" -> 9

\* int(s) returns: s is a non-empty run of digits (signs, blanks and underscores
\* are not among the characters of the documents below).
IntParses(s) == s /= << >> /\ \A i \in DOMAIN s : s[i] \in Digit

\* int(s) for such an s
RECURSIVE IntOf(_)
IntOf(s) ==
    IF s = << >> THEN 0
    ELSE 10 * IntOf(SubSeq(s, 1, Len(s) - 1)) + DigitValue(s[Len(s)])

DigitOf(n) ==
    CASE n = 0 -> "0" [] n = 1 -> "1" [] n = 2 -> "2" [] n = 3 -> "3" [] n = 4 -> "4"
      [] n = 5 -> "5" [] n = 6 -> "6" [] n = 7 -> "7" [] n = 8 -> "8" [] n = 9 -> "9"

\* str(n) for n >= 0
RECURSIVE Str(_)
Str(n) == IF n < 10 THEN <<DigitOf(n)>> ELSE Str(n \div 10) \o <<DigitOf(n % 10)>>

\* s.zfill(width)
RECURSIVE ZFill(_, _)
ZFill(s, width) == IF Len(s) >= width THEN s ELSE ZFill(<<"0">> \o s, width)

\* f"{year}-{month}-{day}", the three parts given as character sequences.
Dashed(year, month, day) == year \o <<"-">> \o month \o <<"-">> \o day

\* The sentinel end of a validity interval: "/9999-12-31"
OpenEnd == <<"/", "9", "9", "9", "9", "-", "1", "2", "-", "3", "1">>

\* "1950-05-02" and "2024-08-01"
DefaultEnactmentDate == <<"1", "9", "5", "0", "-", "0", "5", "-", "0", "2">>
DefaultDateVersion == <<"2", "0", "2", "4", "-", "0", "8", "-", "0", "1">>

\* An <Article Num=num>: the text of its <ArticleTitle> (NoElem without the
\* element, None without text), its <Sentence> elements in document order and
\* all its descendant text nodes in document order.
Article(num, title, sentences, texts) ==
    [num |-> num, title |-> title, sentences |-> sentences, texts |-> texts]

\* A <Sentence>: its text (None without) and whether it lies in a <ParagraphSentence>.
Sentence(text, para) == [text |-> text, para |-> para]

\* A descendant <Law> element with its attributes, or none.
Law(era, year, month, day) ==
    [found |-> TRUE, Era |-> era, Year |-> year, PromulgateMonth |-> month,
     PromulgateDay |-> day]
NoLaw == [found |-> FALSE]

\* A Japanese document: the <Law> element, the texts of the first <LawNum> and
\* <LawTitle>, the <Article> elements that have a Num attribute.
JaDoc(law, law_num, law_title, articles) ==
    [loaded |-> TRUE, law |-> law, law_num |-> law_num, law_title |-> law_title,
     articles |-> articles]

\* The OriginalPromulgateDate attribute read as "<month> <day>, <year>"; a value of
\* another form is all in month.  NoDate: the attribute is missing.
Date(month, day, year) == [month |-> month, day |-> day, year |-> year]
NoDate == Date(None, << >>, << >>)
EmptyDate == Date("", << >>, << >>)

\* An English document: the root's OriginalPromulgateDate, the text of the first
\* <LawTitle>, the <Article> elements that have a Num attribute.
EnDoc(date, law_title, articles) ==
    [loaded |-> TRUE, date |-> date, law_title |-> law_title, articles |-> articles]

\* The Japanese documents.  JaCatalog[1]: promulgated Showa 25, month "5", day "2";
\* article 1 with a title and three sentences, article 2 without title and without
\* sentence.  JaCatalog[2]: promulgated Heisei 5; article 1 twice (main and
\* supplementary provisions) and an article whose Num is empty.  JaCatalog[3]: a
\* Year that is no number; no article.  JaCatalog[4]: a <Law> without attributes;
\* article 3, all blank, and article 5, whose only sentence has its text in a child
\* element.  JaCatalog[5]: no <Law>.  JaCatalog[6]: no Era, month "13".
JaCatalog ==
    << JaDoc(Law("Showa", <<"2", "5">>, <<"5">>, <<"2">>), " Act 131 ", "Denpa",
             << Article("1", "Purpose ja", << Sentence("s1", TRUE), Sentence(None, TRUE),
                                              Sentence(" s2 ", FALSE) >>,
                        <<"Purpose ja", "s1", " s2 ">>),
                Article("2", NoElem, << >>, <<"t1", "   ", "t2">>) >>),
       JaDoc(Law("Heisei", <<"5">>, <<"0", "5">>, <<"0", "2">>), NoElem, None,
             << Article("1", "Purpose ja", << Sentence("s1", TRUE) >>,
                        <<"Purpose ja", "s1">>),
                Article("1", None, << Sentence("s3", TRUE) >>, <<"s3">>),
                Article("", "Untitled", << Sentence("s4", TRUE) >>, <<"Untitled", "s4">>) >>),
       JaDoc(Law("Showa", <<"x">>, <<"0", "5">>, <<"0", "2">>), "Act 131", "Denpa",
             << >>),
       JaDoc(Law(None, NoAttr, NoAttr, NoAttr), None, NoElem,
             << Article("3", "   ", << Sentence("   ", TRUE) >>, <<"   ", "   ">>),
                Article("5", NoElem, << Sentence(None, TRUE) >>, <<"r1">>) >>),
       JaDoc(NoLaw, "Act 131", "Denpa",
             << Article("2", "Definitions ja", << Sentence("s5", TRUE) >>,
                        <<"Definitions ja", "s5">>),
                Article("1", "Purpose ja", << Sentence("s1", TRUE) >>,
                        <<"Purpose ja", "s1">>) >>),
       JaDoc(Law(None, <<"1", "9", "5", "0">>, <<"1", "3">>, <<"2">>), "Act 131", "Denpa",
             << >>) >>

\* The English documents.  EnCatalog[1]: no date; article 1 with a title, one
\* sentence in and one outside a <ParagraphSentence>, and article 4, which no
\* Japanese document has.  EnCatalog[2]: "June 1, 1951"; article 1 whose
\* <ArticleTitle> has no text, article 2 without <ArticleTitle>.  EnCatalog[3]:
\* "February 30, 1951"; article 2 twice.  EnCatalog[4]: an empty date; no article.
\* EnCatalog[5]: a date of another form.
EnCatalog ==
    << EnDoc(NoDate, "Radio Act en",
             << Article("1", "Purpose", << Sentence("e1", TRUE), Sentence("e2", FALSE) >>,
                        <<"Purpose", "e1", "e2">>),
                Article("4", "Scope", << Sentence("e4", TRUE) >>, <<"Scope", "e4">>) >>),
       EnDoc(Date("June", <<"1">>, <<"1", "9", "5", "1">>), None,
             << Article("1", None, << Sentence("e1", TRUE) >>, <<"e1">>),
                Article("2", NoElem, << Sentence("e5", TRUE) >>, <<"e5">>) >>),
       EnDoc(Date("February", <<"3", "0">>, <<"1", "9", "5", "1">>), NoElem,
             << Article("2", "Definitions", << Sentence("e5", TRUE) >>,
                        <<"Definitions", "e5">>),
                Article("2", "Terms", << Sentence("e6", TRUE) >>, <<"Terms", "e6">>) >>),
       EnDoc(EmptyDate, "Radio Act en", << >>),
       EnDoc(Date("1951-06-01", << >>, << >>), "Radio Act en",
             << Article("3", "Licence", << >>, <<"Licence">>) >>) >>

JaDocs == {JaCatalog[i] : i \in 1..NumJaDocs}
EnDocs == {EnCatalog[i] : i \in 1..NumEnDocs}

(***************************************************************************)
(* _extract_articles_from_japanese, lines 108-161.                         *)
(***************************************************************************)
\* The stripped texts of the sentences that have text (lines 146-148, 212-214).
RECURSIVE SentenceTexts(_)
SentenceTexts(sentences) ==
    IF sentences = << >> THEN << >>
    ELSE (IF Truthy(Head(sentences).text) THEN <<Strip(Head(sentences).text)>> ELSE << >>)
         \o SentenceTexts(Tail(sentences))

\* [t.strip() for t in article.xpath(".//text()") if t.strip()]
RECURSIVE NonBlankTexts(_)
NonBlankTexts(texts) ==
    IF texts = << >> THEN << >>
    ELSE (IF Strip(Head(texts)) /= "" THEN <<Strip(Head(texts))>> ELSE << >>)
         \o NonBlankTexts(Tail(texts))

\* Lines 141-154: the text of <Content>.
JapaneseContent(article) ==
    IF article.sentences /= << >>
    THEN Join("\n", SentenceTexts(article.sentences))
    ELSE Join(" ", NonBlankTexts(article.texts))

\* Lines 131-138: the text of <Title>.
JapaneseTitle(article) ==
    IF article.title /= NoElem /\ Truthy(article.title)
    THEN Strip(article.title)
    ELSE "Dai" \o article.num \o "jou"

\* Line 161: the placeholder of a translation.
Placeholder(article_num) == "Article " \o article_num \o " - English translation"

\* Lines 121-161: the <Article> of the structured document; en is the "en"
\* attribute of its <Title>.
StructuredArticle(article) ==
    [id |-> "art_" \o article.num,
     number |-> article.num,
     title |-> JapaneseTitle(article),
     en |-> None,
     content |-> JapaneseContent(article),
     translation |-> Placeholder(article.num),
     status |-> "pending"]

\* Lines 116-161: the loop over the <Article> elements.
RECURSIVE StructuredArticles(_)
StructuredArticles(articles) ==
    IF articles = << >> THEN << >>
    ELSE (IF Truthy(Head(articles).num)
             THEN <<StructuredArticle(Head(articles))>>
             ELSE << >>)
         \o StructuredArticles(Tail(articles))

(***************************************************************************)
(* _link_english_translations, lines 196-234.                              *)
(***************************************************************************)
\* Line 210: the sentences matched by .//ParagraphSentence//Sentence
ParagraphSentences(sentences) == SelectSeq(sentences, LAMBDA s : s.para)

\* Lines 205-219: the entry of english_articles for an article.
EnglishData(article) ==
    [title |-> IF article.title /= NoElem THEN article.title
               ELSE "Article " \o article.num,
     content |-> Join("\n", SentenceTexts(ParagraphSentences(article.sentences)))]

\* Lines 197-219: english_articles; a later article of a number replaces an earlier.
RECURSIVE EnglishArticles(_)
EnglishArticles(articles) ==
    IF articles = << >> THEN EmptyDict
    ELSE LET last == articles[Len(articles)]
             before == EnglishArticles(SubSeq(articles, 1, Len(articles) - 1))
         IN IF Truthy(last.num)
               THEN [n \in DOMAIN before \cup {last.num} |->
                        IF n = last.num THEN EnglishData(last) ELSE before[n]]
               ELSE before

\* Lines 222-234: the loop over the articles of the structured document.  With a
\* title that is None, title_elem.set("en", None) raises TypeError after status and
\* text are set; the except clause of line 238 ends the loop there.
RECURSIVE Linked(_, _)
Linked(articles, english_articles) ==
    IF articles = << >> THEN << >>
    ELSE LET a == Head(articles)
         IN IF a.number \in DOMAIN english_articles
               THEN LET english_data == english_articles[a.number]
                        b == [a EXCEPT !.status = "completed",
                                       !.translation = english_data.content]
                    IN IF english_data.title = None
                          THEN <<b>> \o Tail(articles)
                          ELSE <<[b EXCEPT !.en = english_data.title]>>
                               \o Linked(Tail(articles), english_articles)
               ELSE <<a>> \o Linked(Tail(articles), english_articles)

(***************************************************************************)
(* _extract_metadata_from_xml, lines 404-475.                              *)
(***************************************************************************)
\* Lines 406-418.
DefaultMetadata ==
    [law_id |-> "325AC0000000131",
     law_name |-> "Denpahou",
     law_name_en |-> "Radio Act",
     enactment_date |-> DefaultEnactmentDate,
     law_number |-> "Showa 25 Act 131",
     version |-> "20240801",
     date_version |-> DefaultDateVersion,
     valid |-> DefaultEnactmentDate \o OpenEnd,
     passed_by |-> "National Diet of Japan",
     publisher |-> "Ministry of Internal Affairs and Communications",
     document_type |-> "Act"]

\* law_elem.get(name, default)
AttrOr(value, default) == IF value = NoAttr THEN default ELSE value

\* elem is not None and elem.text
HasText(text) == text /= NoElem /\ Truthy(text)

\* Lines 427-436 raise ValueError: int(year) of a Year that is no number.
JapaneseDateRaises(ja) ==
    ja.loaded /\ ja.law.found /\ ~IntParses(AttrOr(ja.law.Year, <<"2", "5">>))

\* Lines 427-438: the enactment date read from the <Law> element.
JapaneseDate(law) ==
    LET year == AttrOr(law.Year, <<"2", "5">>)
        month == AttrOr(law.PromulgateMonth, <<"0", "5">>)
        day == AttrOr(law.PromulgateDay, <<"0", "2">>)
        era == IF law.Era = None THEN "Showa" ELSE law.Era
        western_year == IF era = "Showa" THEN 1925 + IntOf(year) ELSE IntOf(year)
    IN Dashed(Str(western_year), ZFill(month, 2), ZFill(day, 2))

\* Lines 422-449, when they do not raise.
WithJapanese(metadata, ja) ==
    IF ~ja.loaded THEN metadata
    ELSE LET dated == IF ja.law.found
                         THEN [metadata EXCEPT
                                  !.enactment_date = JapaneseDate(ja.law),
                                  !.valid = JapaneseDate(ja.law) \o OpenEnd]
                         ELSE metadata
             numbered == IF HasText(ja.law_num)
                            THEN [dated EXCEPT !.law_number = Strip(ja.law_num)]
                            ELSE dated
         IN IF HasText(ja.law_title)
               THEN [numbered EXCEPT !.law_name = Strip(ja.law_title)]
               ELSE numbered

\* The month names of %B and their numbers.
MonthNames ==
    <<"January", "February", "March", "April", "May", "June", "July", "August",
      "September", "October", "November", "December">>

MonthNumber(name) == CHOOSE m \in 1..12 : MonthNames[m] = name

DaysIn(month, year) ==
    IF month \in {4, 6, 9, 11} THEN 30
    ELSE IF month /= 2 THEN 31
    ELSE IF year % 4 = 0 /\ (year % 100 /= 0 \/ year % 400 = 0) THEN 29
    ELSE 28

\* datetime.strptime(original_date, "%B %d, %Y") returns: a month name, a day of
\* one or two digits that the month has, a year of four digits that is not 0.
StrptimeParses(date) ==
    /\ \E m \in 1..12 : MonthNames[m] = date.month
    /\ IntParses(date.day) /\ Len(date.day) <= 2
    /\ IntParses(date.year) /\ Len(date.year) = 4 /\ IntOf(date.year) >= 1
    /\ IntOf(date.day) >= 1
    /\ IntOf(date.day) <= DaysIn(MonthNumber(date.month), IntOf(date.year))

\* date_obj.strftime("%Y-%m-%d") of the parsed date, for years from 1000 on.
Strftime(date) ==
    Dashed(ZFill(Str(IntOf(date.year)), 4),
           ZFill(Str(MonthNumber(date.month)), 2),
           ZFill(Str(IntOf(date.day)), 2))

\* if original_date: the attribute is there and is not the empty string.
DateGiven(date) == date /= NoDate /\ date /= EmptyDate

\* WithEnglish without line 466: the validity interval keeps its start.
WithEnglishKeepingValid(metadata, en) ==
    IF ~en.loaded THEN metadata
    ELSE LET titled == IF HasText(en.law_title)
                          THEN [metadata EXCEPT !.law_name_en = Strip(en.law_title)]
                          ELSE metadata
         IN IF DateGiven(en.date) /\ StrptimeParses(en.date)
               THEN [titled EXCEPT !.enactment_date = Strftime(en.date)]
               ELSE titled

\* Lines 452-468.
WithEnglish(metadata, en) ==
    IF ~en.loaded THEN metadata
    ELSE LET titled == IF HasText(en.law_title)
                          THEN [metadata EXCEPT !.law_name_en = Strip(en.law_title)]
                          ELSE metadata
         IN IF DateGiven(en.date) /\ StrptimeParses(en.date)
               THEN [titled EXCEPT !.enactment_date = Strftime(en.date),
                                   !.valid = Strftime(en.date) \o OpenEnd]
               ELSE titled

\* Lines 404-475.  The ValueError of int(year) is raised before anything is
\* assigned and is caught at line 472: the defaults are returned and the English
\* document is not looked at.
ExtractMetadataFromXml(ja, en) ==
    IF JapaneseDateRaises(ja) THEN DefaultMetadata
    ELSE WithEnglish(WithJapanese(DefaultMetadata, ja), en)

(***************************************************************************)
(* convert_to_json_ld and _extract_articles_json_ld, lines 253-350.        *)
(***************************************************************************)
RADIO_ACT_URI == "http://data.japan.go.jp/law/radio-act/1950/131"

\* ArticleJson leaving the English version out while the translation is pending.
ArticleJsonOfCompleted(a) ==
    [id |-> RADIO_ACT_URI \o "#" \o a.id,
     type |-> "eli:LegalResourceSubdivision",
     division_type |-> "article",
     number |-> a.number,
     title |-> a.title,
     content |-> a.content,
     has_language_version |->
        << [type |-> "eli:LanguageVersion", language |-> "ja", content |-> a.content] >>
        \o IF a.status = "pending" THEN << >>
           ELSE << [type |-> "eli:LanguageVersion", language |-> "en",
                    content |-> a.translation] >>]

\* Lines 303-343: the node of an article.
ArticleJson(a) ==
    [id |-> RADIO_ACT_URI \o "#" \o a.id,
     type |-> "eli:LegalResourceSubdivision",
     division_type |-> "article",
     number |-> a.number,
     title |-> a.title,
     content |-> a.content,
     has_language_version |->
        << [type |-> "eli:LanguageVersion", language |-> "ja", content |-> a.content],
           [type |-> "eli:LanguageVersion", language |-> "en",
            content |-> a.translation] >>]

\* ExtractArticlesJsonLd putting each node in front of the list.
ExtractArticlesJsonLdReversed(structured) ==
    [i \in DOMAIN structured.articles |->
        ArticleJson(structured.articles[Len(structured.articles) - i + 1])]

\* Lines 297-350: eli:has_part
ExtractArticlesJsonLd(structured) ==
    [i \in DOMAIN structured.articles |-> ArticleJson(structured.articles[i])]

\* Lines 254-286: the graph.
JsonLd(structured, ja, en) ==
    LET metadata == ExtractMetadataFromXml(ja, en)
    IN [id |-> RADIO_ACT_URI,
        type |-> "eli:LegalResource",
        title |-> metadata.law_name,
        title_alternative |-> metadata.law_name_en,
        date_document |-> metadata.enactment_date,
        date_version |-> metadata.date_version,
        version |-> metadata.version,
        valid |-> metadata.valid,
        passed_by |-> metadata.passed_by,
        publisher |-> metadata.publisher,
        type_document |-> metadata.document_type,
        number |-> "131",
        language |-> <<"ja", "en">>,
        is_about |-> "radio spectrum management",
        has_part |-> ExtractArticlesJsonLd(structured)]

(***************************************************************************)
(* The methods of ELIConverter, callable in any order.                     *)
(***************************************************************************)
Returned(method, value) == [kind |-> "bool", of |-> method, val |-> value]

\* load_xml_files, lines 49-58: both files parse.
LoadXmlFiles ==
    /\ loads < MaxLoads
    /\ loads' = loads + 1
    /\ \E ja \in JaDocs, en \in EnDocs :
          /\ japanese_xml' = ja
          /\ english_xml' = en
    /\ eli_ret' = Returned("load_xml_files", TRUE)
    /\ UNCHANGED <<dvars, structured_xml, eli_files, ja0, en0>>

\* load_xml_files, lines 49-62: etree.parse raises for the Japanese file, or for
\* the English file after the Japanese root has been assigned.
LoadXmlFilesFails ==
    /\ loads < MaxLoads
    /\ loads' = loads + 1
    /\ \/ japanese_xml' = japanese_xml
       \/ \E ja \in JaDocs : japanese_xml' = ja
    /\ eli_ret' = Returned("load_xml_files", FALSE)
    /\ UNCHANGED <<dvars, english_xml, structured_xml, eli_files, ja0, en0>>

\* CreateStructuredXml reporting a document without articles as a failure.
CreateStructuredXmlNeedingArticles ==
    /\ IF japanese_xml.loaded /\ StructuredArticles(japanese_xml.articles) = << >>
          THEN /\ eli_ret' = Returned("create_structured_xml", FALSE)
               /\ UNCHANGED <<structured_xml, ja0, en0>>
          ELSE /\ structured_xml' =
                     [built |-> TRUE,
                      articles |-> IF japanese_xml.loaded
                                      THEN StructuredArticles(japanese_xml.articles)
                                      ELSE << >>]
               /\ ja0' = japanese_xml
               /\ en0' = NoXml
               /\ eli_ret' = Returned("create_structured_xml", TRUE)
    /\ UNCHANGED <<dvars, japanese_xml, english_xml, eli_files, loads>>

\* create_structured_xml, lines 71-97.
CreateStructuredXml ==
    /\ structured_xml' =
          [built |-> TRUE,
           articles |-> IF japanese_xml.loaded
                           THEN StructuredArticles(japanese_xml.articles)
                           ELSE << >>]
    /\ ja0' = japanese_xml
    /\ en0' = NoXml
    /\ eli_ret' = Returned("create_structured_xml", TRUE)
    /\ UNCHANGED <<dvars, japanese_xml, english_xml, eli_files, loads>>

\* add_translation_links, lines 173-183.
AddTranslationLinks ==
    /\ IF structured_xml = NoStructured
          THEN /\ eli_ret' = Returned("add_translation_links", FALSE)
               /\ UNCHANGED <<structured_xml, en0>>
          ELSE /\ structured_xml' =
                     IF english_xml.loaded
                     THEN [structured_xml EXCEPT
                              !.articles = Linked(@, EnglishArticles(english_xml.articles))]
                     ELSE structured_xml
               /\ en0' = english_xml
               /\ eli_ret' = Returned("add_translation_links", TRUE)
    /\ UNCHANGED <<dvars, japanese_xml, english_xml, eli_files, loads, ja0>>

\* A file of the output directory with this content.
Written(content) == [exists |-> TRUE, content |-> content]

\* save_structured_xml, lines 386-398.
SaveStructuredXml ==
    /\ IF structured_xml = NoStructured
          THEN /\ eli_ret' = Returned("save_structured_xml", FALSE)
               /\ UNCHANGED eli_files
          ELSE /\ eli_files' = [eli_files EXCEPT !.structured = Written(structured_xml)]
               /\ eli_ret' = Returned("save_structured_xml", TRUE)
    /\ UNCHANGED <<dvars, japanese_xml, english_xml, structured_xml, loads, ja0, en0>>

\* save_structured_xml, lines 391-402: mkdir or tree.write raises.
SaveStructuredXmlFails ==
    /\ structured_xml /= NoStructured
    /\ eli_ret' = Returned("save_structured_xml", FALSE)
    /\ UNCHANGED <<dvars, japanese_xml, english_xml, structured_xml, eli_files, loads,
                   ja0, en0>>

\* ConvertToJsonLd building the structured document when there is none.
ConvertToJsonLdBuilding ==
    /\ structured_xml' = [built |-> TRUE, articles |-> << >>]
    /\ eli_ret' = [kind |-> "graph", of |-> "convert_to_json_ld",
                   val |-> JsonLd(structured_xml', japanese_xml, english_xml)]
    /\ UNCHANGED <<dvars, japanese_xml, english_xml, eli_files, loads, ja0, en0>>

\* ConvertToJsonLd taking the articles out of the structured document as it
\* projects them.
ConvertToJsonLdConsuming ==
    /\ eli_ret' = IF structured_xml = NoStructured
                     THEN [kind |-> "None", of |-> "convert_to_json_ld"]
                     ELSE [kind |-> "graph", of |-> "convert_to_json_ld",
                           val |-> JsonLd(structured_xml, japanese_xml, english_xml)]
    /\ structured_xml' = IF structured_xml = NoStructured
                            THEN structured_xml
                            ELSE [structured_xml EXCEPT !.articles = << >>]
    /\ UNCHANGED <<dvars, japanese_xml, english_xml, eli_files, loads, ja0, en0>>

\* convert_to_json_ld, lines 248-289.
ConvertToJsonLd ==
    /\ eli_ret' = IF structured_xml = NoStructured
                     THEN [kind |-> "None", of |-> "convert_to_json_ld"]
                     ELSE [kind |-> "graph", of |-> "convert_to_json_ld",
                           val |-> JsonLd(structured_xml, japanese_xml, english_xml)]
    /\ UNCHANGED <<dvars, japanese_xml, english_xml, structured_xml, eli_files, loads,
                   ja0, en0>>

\* save_json_ld, lines 363-370, called with the graph convert_to_json_ld returned.
SaveJsonLd ==
    /\ eli_ret.kind = "graph"
    /\ eli_files' = [eli_files EXCEPT !.jsonld = Written(eli_ret.val)]
    /\ eli_ret' = Returned("save_json_ld", TRUE)
    /\ UNCHANGED <<dvars, japanese_xml, english_xml, structured_xml, loads, ja0, en0>>

\* save_json_ld, lines 363-374: mkdir or open raises.
SaveJsonLdFails ==
    /\ eli_ret.kind = "graph"
    /\ eli_ret' = Returned("save_json_ld", FALSE)
    /\ UNCHANGED <<dvars, japanese_xml, english_xml, structured_xml, eli_files, loads,
                   ja0, en0>>

NextEli ==
    \/ LoadXmlFiles
    \/ LoadXmlFilesFails
    \/ CreateStructuredXml
    \/ AddTranslationLinks
    \/ SaveStructuredXml
    \/ SaveStructuredXmlFails
    \/ ConvertToJsonLd
    \/ SaveJsonLd
    \/ SaveJsonLdFails

\* A converter on its own: no diff checker is at work.
InitEli ==
    /\ Init
    /\ \A s \in Sources : files[ExistingFile(s)] = Absent

SpecEli == InitEli /\ [][NextEli]_vars

(***************************************************************************)
(* convert_to_eli, lines 490-523: one new converter taken through the six  *)
(* stages, each begun when the stage before it has reported success.       *)
(***************************************************************************)
\* A stage reported failure: False, or None from convert_to_json_ld.
ReportsFailure(r) == (r.kind = "bool" /\ r.val = FALSE) \/ r.kind = "None"

\* Lines 491-495: the converter is new and load_xml_files is called.
ToEliLoad ==
    /\ eli_ret = NoEliReturn
    /\ (LoadXmlFiles \/ LoadXmlFilesFails)

\* Lines 497-499.
ToEliCreate ==
    /\ eli_ret = Returned("load_xml_files", TRUE)
    /\ CreateStructuredXml

\* Lines 501-503.
ToEliLink ==
    /\ eli_ret = Returned("create_structured_xml", TRUE)
    /\ AddTranslationLinks

\* Lines 505-508.
ToEliSaveStructured ==
    /\ eli_ret = Returned("add_translation_links", TRUE)
    /\ (SaveStructuredXml \/ SaveStructuredXmlFails)

\* ToEliConvert without the test of line 507: the projection follows
\* save_structured_xml whatever it returned.
ToEliConvertRegardless ==
    /\ eli_ret.of = "save_structured_xml"
    /\ ConvertToJsonLd

\* Lines 510-513.
ToEliConvert ==
    /\ eli_ret = Returned("save_structured_xml", TRUE)
    /\ ConvertToJsonLd

\* Lines 515-518.
ToEliSaveJsonLd ==
    /\ eli_ret.of = "convert_to_json_ld" /\ eli_ret.kind /= "None"
    /\ (SaveJsonLd \/ SaveJsonLdFails)

\* The return statements of lines 495-520: False after the stage that reported
\* failure, True after save_json_ld returned True.
ToEliReturn ==
    /\ eli_ret.of /= "convert_to_eli"
    /\ ReportsFailure(eli_ret) \/ eli_ret = Returned("save_json_ld", TRUE)
    /\ eli_ret' = Returned("convert_to_eli", ~ReportsFailure(eli_ret))
    /\ UNCHANGED <<dvars, japanese_xml, english_xml, structured_xml, eli_files, loads,
                   ja0, en0>>

NextToEli ==
    \/ ToEliLoad
    \/ ToEliCreate
    \/ ToEliLink
    \/ ToEliSaveStructured
    \/ ToEliConvert
    \/ ToEliSaveJsonLd
    \/ ToEliReturn

SpecToEli == InitEli /\ [][NextToEli]_vars

(***************************************************************************)
(* The record a diff run returns is result in the state pc = "return".     *)
(***************************************************************************)
\* The run of source cur is about to return result.
Returning == pc = "return"

\* _download_file returned a path in this run.
Retrieved == temp_file /= None

\* The fingerprint of the snapshot the run found.
OldFingerprint == Md5(Bytes(snap0))

\* The fingerprint of the candidate of the run.
NewFingerprint == Md5(Bytes(cand0))

MetadataKeys == {"law_number", "law_name", "enact_date", "enforcement_date"}

\* A changes entry written by line 223.
IsMetadataChange(e) == Len(e) = 6 /\ e[1] = "metadata" /\ e[2] \in MetadataKeys

(***************************************************************************)
(* C1. First-run policy: a run that finds no snapshot file and whose       *)
(* retrieval succeeds returns has_changes = false and changes equal to the *)
(* one initial-download marker, for either source and any candidate.       *)
(***************************************************************************)
C1_FirstRunPolicy ==
    (Returning /\ Retrieved /\ snap0 = Absent)
        => /\ result.has_changes = FALSE
           /\ result.changes = <<InitialDownload>>

\* An English first run of a document that is not XML returns.
C1_Witness ==
    /\ Returning /\ Retrieved /\ snap0 = Absent
    /\ cur = "en" /\ ~cand0.wf
    /\ result.changes = <<InitialDownload>>

MetadataOf(doc) ==
    IF doc /= Absent /\ doc.wf THEN MetadataLoop(doc.elems, EmptyDict) ELSE EmptyDict

\* The positions of changes that hold an entry for key.
EntriesFor(changes, key) == {i \in 2..Len(changes) : changes[i][2] = key}

C5_MetadataDiffSymmetry ==
    (Returning /\ result.has_changes)
        => /\ \A i \in 2..Len(result.changes) : IsMetadataChange(result.changes[i])
           /\ \A key \in MetadataKeys :
                LET old == Get(MetadataOf(snap0), key)
                    new == Get(MetadataOf(cand0), key)
                    at == EntriesFor(result.changes, key)
                IN IF old /= new
                      THEN /\ Cardinality(at) = 1
                           /\ \A i \in at : result.changes[i] = MetadataChange(key, old, new)
                      ELSE at = {}

\* The law number changed, the law name is in the old document only, the
\* enforcement date is empty in the old document and missing in the new one.
C5_Witness ==
    /\ Returning /\ result.has_changes
    /\ "law_name" \in DOMAIN MetadataOf(snap0)
    /\ "law_name" \notin DOMAIN MetadataOf(cand0)
    /\ "enforcement_date" \in DOMAIN MetadataOf(snap0)
    /\ EntriesFor(result.changes, "law_name") /= {}
    /\ EntriesFor(result.changes, "enforcement_date") = {}
    /\ Len(result.changes) = 3

(***************************************************************************)
(* C6. Retrieval failure: when the download yields no file the run returns *)
(* at once with error = download failed, has_changes = false, new_hash =   *)
(* None and no changes; it has not normalized, compared or replaced.       *)
(***************************************************************************)
C6_RetrievalFailure ==
    /\ pc \in {"normalize", "compare", "unlink_existing", "rename", "unlink_temp"}
          => Retrieved
    /\ (Returning /\ ~Retrieved)
          => /\ result.error = DownloadFailed
             /\ result.has_changes = FALSE
             /\ result.new_hash = None
             /\ result.changes = << >>
             /\ normalized_temp = None
             /\ cand0 = Absent
             /\ \A n \in FilesOf(cur) : files[n] = dir0[n]

\* An English run that found a snapshot and whose download failed.
C6_Witness ==
    /\ Returning /\ ~Retrieved
    /\ cur = "en" /\ snap0 /= Absent
    /\ result.error = DownloadFailed

(***************************************************************************)
(* C7. Failed runs leave no trace: when a run returns with error set, the  *)
(* snapshot file that existed before the run still has its content and     *)
(* neither temporary file of the source is left in the data directory.     *)
(***************************************************************************)
C7_FailedRunsLeaveNoTrace ==
    (Returning /\ result.error /= None)
        => /\ snap0 /= Absent => files[ExistingFile(cur)] = snap0
           /\ files[TempFile(cur)] = Absent
           /\ files[NormalizedPath(TempFile(cur))] = Absent

(***************************************************************************)
(* C8. Atomic replacement: at every point of a run the snapshot path holds *)
(* the complete old content or the complete candidate, never nothing when  *)
(* a snapshot existed; a run that returns without error leaves a snapshot  *)
(* whose fingerprint is the record's new_hash.                             *)
(***************************************************************************)
C8_AtomicReplacement ==
    /\ (entry /= "idle" /\ pc /= "download")
          => files[ExistingFile(cur)] \in {snap0, cand0}
    /\ (Returning /\ result.error = None)
          => CalculateFileHash(files, ExistingFile(cur)) = result.new_hash

(***************************************************************************)
(* C9. Per-source isolation: in check_all_diffs the Japanese run, however  *)
(* it ends, leaves the English files as they were, the English run then    *)
(* starts from them, and the call returns two records, Japanese first.     *)
(***************************************************************************)
\* rs is what check_all_diffs returns for the directory dir0 of its call.
BothRecords(rs) ==
    /\ Len(rs) = 2
    /\ rs[1].source = "Japanese Law"
    /\ rs[2].source = "English Law"
    /\ rs[2].old_hash = IF dir0[ExistingFile("en")] = Absent
                           THEN None
                           ELSE Md5(Bytes(dir0[ExistingFile("en")]))

C9_PerSourceIsolation ==
    /\ (entry \in AllEntries /\ cur = "ja")
          => /\ results = << >>
             /\ \A n \in FilesOf("en") : files[n] = dir0[n]
    /\ (entry \in AllEntries /\ cur = "en")
          => /\ Len(results) >= 1
             /\ results[1].source = "Japanese Law"
             /\ snap0 = dir0[ExistingFile("en")]
    /\ (entry \in AllEntries /\ pc \in {"save", "exit"}) => BothRecords(results)
    /\ ret.kind = "list" => BothRecords(ret.val)

\* The Japanese run failed on an exception and the English run reported a change.
C9_Witness ==
    /\ ret.kind = "list"
    /\ ret.val[1].error = OsError
    /\ ret.val[2].has_changes
    /\ ret.val[2].error = None

(***************************************************************************)
(* C10. Exit signal.  As claimed: the exit code of a main function differs *)
(* between the outcomes "a source changed", "both sources ran without      *)
(* error and without change" and "a source failed and none changed".       *)
(* As the code has it: the exit code is 1 when a record has has_changes    *)
(* and 0 otherwise, so the last two outcomes both exit with 0.             *)
(***************************************************************************)
\* The outcome of the records rs, of which only has_changes and error count.
Outcome(rs) ==
    IF \E i \in DOMAIN rs : rs[i].has_changes THEN "changed"
    ELSE IF \E i \in DOMAIN rs : rs[i].error /= None THEN "failed"
    ELSE "clean"

\* The pairs of records as far as has_changes and error go.
RecordPairs ==
    {<<[has_changes |-> h1, error |-> e1], [has_changes |-> h2, error |-> e2]>> :
        h1 \in BOOLEAN, e1 \in {None, DownloadFailed},
        h2 \in BOOLEAN, e2 \in {None, DownloadFailed}}

\* The exit code of the main function e for the records rs.
ExitCode(e, rs) ==
    IF e = "diff_main" THEN DiffMainExitCode(rs) ELSE ValidateMainExitCode(rs, 0, 0)

AllReturned == ret.kind = "list" \/ pc = "exit"

C11_SingleSlotCache ==
    AllReturned
        => /\ "last_check" \in DOMAIN cache
           /\ cache["last_check"].results = results
           /\ Len(results) = 2
           /\ results[1].source = "Japanese Law"
           /\ results[2].source = "English Law"
           /\ cache["last_check"].timestamp = clock - 1
           /\ \A i \in 1..2 :
                /\ results[i].timestamp >= 0
                /\ results[i].timestamp < cache["last_check"].timestamp
           /\ files[CacheFile] /= dir0[CacheFile]
                 => files[CacheFile] \in {Corrupt, [ok |-> TRUE, data |-> cache]}

\* The call found the entry of an earlier call, a source failed in it, and the
\* cache file was written.
C11_Witness ==
    /\ ret.kind = "list"
    /\ dir0[CacheFile] = [ok |-> TRUE, data |-> EarlierCache]
    /\ results[1].error = DownloadFailed
    /\ results[2].error = None
    /\ files[CacheFile] = [ok |-> TRUE, data |-> cache]

(***************************************************************************)
(* C12. Cache I/O failure never aborts a run: a checker constructed on a   *)
(* cache file that is missing, unreadable or corrupt has the empty map as  *)
(* its cache, and check_all_diffs returns its records without raising,     *)
(* whether the cache file can be written or not.                           *)
(***************************************************************************)
\* The cache file holds no cache: it is missing, does not parse or is no object.
NoCacheIn(file) == file = Absent \/ ~file.ok \/ ~IsDict(file.data)

C12_CacheFailureNeverAborts ==
    /\ (runs = 0 /\ NoCacheIn(files[CacheFile])) => cache = EmptyDict
    /\ pc /= "raised"
    /\ ret.kind /= "raise"

(***************************************************************************)
(* C13. Alignment completeness: after alignment the structured document    *)
(* holds exactly one article record for each article number of the primary *)
(* document, also when the primary document has a number more than once,   *)
(* and no record for a number that only the secondary document has.        *)
(***************************************************************************)
\* The structured document has been built and linked with a loaded English one.
Aligned == structured_xml /= NoStructured /\ en0 /= NoXml

\* The article numbers the extraction takes from a document.
NumbersOf(doc) ==
    IF doc = NoXml THEN {}
    ELSE {doc.articles[i].num : i \in DOMAIN doc.articles} \ {""}

\* The positions of the structured document's records for a number.
RecordsOf(number) ==
    {i \in DOMAIN structured_xml.articles : structured_xml.articles[i].number = number}

C13_AlignmentCompleteness ==
    Aligned
        => /\ \A n \in NumbersOf(ja0) : Cardinality(RecordsOf(n)) = 1
           /\ \A i \in DOMAIN structured_xml.articles :
                structured_xml.articles[i].number \in NumbersOf(ja0)

(***************************************************************************)
(* C14. Alignment status: after alignment an article is 'completed' if and *)
(* only if its number is a key of the secondary lookup; a completed        *)
(* article has the body and the title of the secondary article of its      *)
(* number (the last one, when there are several), any other article is     *)
(* 'pending' and has the placeholder as translation.                       *)
(***************************************************************************)
C14_AlignmentStatus ==
    Aligned
        => LET lookup == EnglishArticles(en0.articles)
           IN \A i \in DOMAIN structured_xml.articles :
                 LET a == structured_xml.articles[i]
                 IN IF a.number \in DOMAIN lookup
                       THEN /\ a.status = "completed"
                            /\ a.translation = lookup[a.number].content
                            /\ a.en = lookup[a.number].title
                       ELSE /\ a.status = "pending"
                            /\ a.translation = Placeholder(a.number)

(***************************************************************************)
(* C15. Pending translations project to empty content: in a projected      *)
(* graph the 'en' language version of an article whose translation is      *)
(* pending has the empty string as content.                                *)
(***************************************************************************)
\* convert_to_json_ld has just returned a graph.
Projected == eli_ret.kind = "graph"

C15_PendingProjectsToEmpty ==
    Projected
        => \A i \in DOMAIN structured_xml.articles :
              structured_xml.articles[i].status = "pending"
                 => eli_ret.val.has_part[i].has_language_version[2].content = ""

(***************************************************************************)
(* C16. Two language versions per article: every node of eli:has_part has  *)
(* a has_language_version list of two entries, the first of language 'ja'  *)
(* with the primary body, the second of language 'en', for pending and for *)
(* completed translations.                                                 *)
(***************************************************************************)
C16_TwoLanguageVersions ==
    Projected
        => /\ Len(eli_ret.val.has_part) = Len(structured_xml.articles)
           /\ \A i \in DOMAIN eli_ret.val.has_part :
                LET versions == eli_ret.val.has_part[i].has_language_version
                IN /\ Len(versions) = 2
                   /\ versions[1].language = "ja"
                   /\ versions[1].content = structured_xml.articles[i].content
                   /\ versions[2].language = "en"

\* A graph with a completed and a pending article.
C16_Witness ==
    /\ Projected
    /\ \E i, j \in DOMAIN structured_xml.articles :
          /\ structured_xml.articles[i].status = "completed"
          /\ structured_xml.articles[j].status = "pending"
          /\ Len(eli_ret.val.has_part[j].has_language_version) = 2

(***************************************************************************)
(* C17. Projection precondition: in any order of calls, a call of          *)
(* convert_to_json_ld, add_translation_links or save_structured_xml made   *)
(* while no structured document has been built returns the failure value   *)
(* and changes nothing of the converter or its output files; once the      *)
(* structured document is built, convert_to_json_ld returns a graph.       *)
(***************************************************************************)
\* The methods that need the structured document.
NeedStructured == {"convert_to_json_ld", "add_translation_links", "save_structured_xml"}

\* The value with which a method reports failure.
Failure(method) ==
    IF method = "convert_to_json_ld"
    THEN [kind |-> "None", of |-> method]
    ELSE Returned(method, FALSE)

C17_ProjectionPrecondition ==
    [][/\ (structured_xml = NoStructured /\ eli_ret'.of \in NeedStructured)
             => /\ eli_ret' = Failure(eli_ret'.of)
                /\ UNCHANGED <<japanese_xml, english_xml, structured_xml, eli_files>>
       /\ (structured_xml /= NoStructured /\ eli_ret'.of = "convert_to_json_ld")
             => /\ eli_ret'.kind = "graph"
                /\ UNCHANGED structured_xml]_vars

\* convert_to_json_ld was called on a converter that had loaded its documents and
\* had built nothing.
C17_Witness ==
    /\ eli_ret = Failure("convert_to_json_ld")
    /\ japanese_xml /= NoXml
    /\ structured_xml = NoStructured

(***************************************************************************)
(* C18. Validity interval: in every projected graph eli:valid is the value *)
(* of eli:date_document followed by "/9999-12-31", whatever dates the two   *)
(* documents give, miss or give unparseably.                               *)
(***************************************************************************)
C18_ValidityInterval ==
    Projected => eli_ret.val.valid = eli_ret.val.date_document \o OpenEnd

\* The Japanese document gives one date and the English document another one.
C18_Witness ==
    /\ Projected
    /\ japanese_xml /= NoXml /\ japanese_xml.law.found /\ ~JapaneseDateRaises(japanese_xml)
    /\ english_xml /= NoXml /\ DateGiven(english_xml.date)
    /\ eli_ret.val.date_document /= JapaneseDate(japanese_xml.law)
    /\ eli_ret.val.date_document /= DefaultEnactmentDate

(***************************************************************************)
(* C19. Date normalization: the enactment date of every projected graph    *)
(* has the form YYYY-MM-DD, for every value of the <Law> element's Era,     *)
(* Year, PromulgateMonth and PromulgateDay and of the English root's       *)
(* OriginalPromulgateDate.                                                 *)
(***************************************************************************)
\* Four digits, a dash, two digits, a dash, two digits.
IsIsoDate(date) ==
    /\ Len(date) = 10
    /\ \A i \in {1, 2, 3, 4, 6, 7, 9, 10} : date[i] \in Digit
    /\ date[5] = "-" /\ date[8] = "-"

C19_DateNormalization == Projected => IsIsoDate(eli_ret.val.date_document)

(***************************************************************************)
(* C20. Fingerprint: _calculate_file_hash gives "" for a path that does    *)
(* not exist and the MD5 digest of the bytes for one that does; the digest *)
(* is never "", not even for an empty file, two files have the same        *)
(* fingerprint exactly when they have the same bytes, and the fingerprint  *)
(* is a function of the bytes alone.                                       *)
(***************************************************************************)
\* The paths _calculate_file_hash is called with, and the others of their kind.
DocumentFiles == FileNames \ {CacheFile}

C20_Fingerprint ==
    \A p \in DocumentFiles, q \in DocumentFiles :
        /\ ~Exists(files, p) => CalculateFileHash(files, p) = ""
        /\ Exists(files, p)
              => /\ CalculateFileHash(files, p) = Md5(Bytes(files[p]))
                 /\ CalculateFileHash(files, p) /= ""
        /\ (Exists(files, p) /\ Exists(files, q))
              => (Bytes(files[p]) = Bytes(files[q])
                     <=> CalculateFileHash(files, p) = CalculateFileHash(files, q))
    /\ pc = "compare"
          => /\ result.new_hash = Md5(Bytes(cand0))
             /\ result.new_hash /= ""

\* The fingerprint of an empty download has been taken, in a directory that has
\* a path without a file, two files of the same bytes and two of different bytes.
C20_Witness ==
    /\ \E p \in DocumentFiles : Exists(files, p) /\ Bytes(files[p]) = ""
    /\ \E p \in DocumentFiles : ~Exists(files, p)
    /\ \E p \in DocumentFiles, q \in DocumentFiles :
          /\ p /= q /\ Exists(files, p) /\ Exists(files, q)
          /\ Bytes(files[p]) = Bytes(files[q])
    /\ \E p \in DocumentFiles, q \in DocumentFiles :
          /\ Exists(files, p) /\ Exists(files, q)
          /\ Bytes(files[p]) /= Bytes(files[q]) /\ Bytes(files[q]) /= ""
    /\ pc = "compare" /\ Bytes(cand0) = ""

(***************************************************************************)
(* C21. No structure found is not an error: for a Japanese document        *)
(* without an <Article> that has a Num attribute, create_structured_xml    *)
(* returns True and builds a structured document without articles, and     *)
(* convert_to_json_ld returns a graph whose eli:has_part is the empty      *)
(* list; every call returns a value.                                       *)
(***************************************************************************)
\* The loaded Japanese document has no <Article Num=...>.
NoArticleFound(ja) == ja /= NoXml /\ ja.articles = << >>

C21_NoStructureIsNoError ==
    /\ (eli_ret.of = "create_structured_xml" /\ NoArticleFound(japanese_xml))
          => /\ eli_ret = Returned("create_structured_xml", TRUE)
             /\ structured_xml = [built |-> TRUE, articles |-> << >>]
    /\ (eli_ret.of = "convert_to_json_ld" /\ structured_xml /= NoStructured
            /\ NoArticleFound(ja0))
          => /\ eli_ret.kind = "graph"
             /\ eli_ret.val.has_part = << >>
    /\ eli_ret.kind \in {"none", "bool", "None", "graph"}

\* A document without articles was loaded, built, linked and projected.
C21_Witness ==
    /\ Projected
    /\ NoArticleFound(ja0) /\ en0 /= NoXml
    /\ eli_ret.val.has_part = << >>

(***************************************************************************)
(* C22. Body extraction: the <Content> of every article of the structured  *)
(* document is the newline-joined texts of the article's <Sentence>        *)
(* elements in document order, and, when that finds no sentence text (no   *)
(* <Sentence>, or none with text of its own), the space-joined non-blank   *)
(* descendant text nodes of the article.                                   *)
(***************************************************************************)
\* The articles of a Japanese document that get a record: those with a number.
Numbered(ja) == IF ja = NoXml THEN << >> ELSE SelectSeq(ja.articles, LAMBDA a : Truthy(a.num))

\* The body as the property states it.
StatedBody(article) ==
    IF SentenceTexts(article.sentences) /= << >>
    THEN Join("\n", SentenceTexts(article.sentences))
    ELSE Join(" ", NonBlankTexts(article.texts))

C22_BodyExtraction ==
    structured_xml /= NoStructured
        => /\ Len(structured_xml.articles) = Len(Numbered(ja0))
           /\ \A i \in DOMAIN structured_xml.articles :
                 structured_xml.articles[i].content = StatedBody(Numbered(ja0)[i])

(***************************************************************************)
(* C23. Order preservation: eli:has_part has one node per article record   *)
(* of the structured document, in the order in which the articles stand in *)
(* the Japanese document, the i-th node carrying the i-th article's        *)
(* number; and the nodes are a function of the documents: however often    *)
(* the structured document was built before, the nodes projected from an   *)
(* unlinked build are those of the Japanese document's articles.           *)
(***************************************************************************)
C23_OrderPreservation ==
    Projected
        => LET nodes == eli_ret.val.has_part
               records == structured_xml.articles
               articles == Numbered(ja0)
           IN /\ Len(nodes) = Len(records)
              /\ Len(nodes) = Len(articles)
              /\ \A i \in DOMAIN nodes :
                    /\ nodes[i].number = records[i].number
                    /\ nodes[i].number = articles[i].num
                    /\ nodes[i].id = RADIO_ACT_URI \o "#art_" \o articles[i].num
                    /\ nodes[i].content = records[i].content
                    /\ en0 = NoXml
                          => /\ nodes[i].title = JapaneseTitle(articles[i])
                             /\ nodes[i].content = JapaneseContent(articles[i])
                             /\ nodes[i].has_language_version[1].content
                                   = JapaneseContent(articles[i])
                             /\ nodes[i].has_language_version[2].content
                                   = Placeholder(articles[i].num)

\* A graph of two articles with different numbers has been projected.
C23_Witness ==
    /\ Projected
    /\ Len(eli_ret.val.has_part) = 2
    /\ eli_ret.val.has_part[1].number /= eli_ret.val.has_part[2].number
    /\ Numbered(ja0)[1].num = eli_ret.val.has_part[1].number

(***************************************************************************)
(* C24. Projection is read-only: a call of convert_to_json_ld, whether it  *)
(* returns a graph or None, leaves the structured document and the two     *)
(* loaded documents as they were, and the graph it returns is determined   *)
(* by them, so that calls repeated on the same converter return equal      *)
(* graphs.                                                                 *)
(***************************************************************************)
C24_ProjectionReadOnly ==
    [][eli_ret'.of = "convert_to_json_ld"
          => /\ UNCHANGED <<structured_xml, japanese_xml, english_xml, eli_files>>
             /\ eli_ret'.kind \in {"graph", "None"}
             /\ eli_ret'.kind = "graph"
                   => eli_ret'.val = JsonLd(structured_xml', japanese_xml', english_xml')]_vars

\* The graph of a linked document was projected and saved, and projected again.
C24_Witness ==
    /\ Projected
    /\ eli_files.jsonld = Written(eli_ret.val)
    /\ \E i \in DOMAIN structured_xml.articles :
          structured_xml.articles[i].status = "completed"

(***************************************************************************)
(* C25. Two instances of one state machine: when check_all_diffs finds the *)
(* files of the two sources in the same state and the two retrievals have  *)
(* the same outcome, the English run returns a record equal to the         *)
(* Japanese one in has_changes, old_hash, new_hash, changes and error, and *)
(* leaves its three files as the Japanese run left its own.  (The entries  *)
(* of changes after the first are compared as a set: their order is the    *)
(* iteration order of a Python set.)                                       *)
(***************************************************************************)
\* The English run of check_all_diffs is about to return; the Japanese record is
\* in results.
BothRun == pc = "return" /\ cur = "en" /\ entry \in AllEntries /\ Len(results) = 1

\* The files of one source, as a function of their role.
Footprint(fs, s) ==
    <<fs[ExistingFile(s)], fs[TempFile(s)], fs[NormalizedPath(TempFile(s))]>>

SameStart == Footprint(dir0, "ja") = Footprint(dir0, "en")

\* Both downloads failed, or both delivered documents with the same candidate:
\* the Japanese candidate is the new Japanese snapshot, the English one is cand0.
SameRetrieval ==
    \/ results[1].error = DownloadFailed /\ result.error = DownloadFailed
    \/ /\ results[1].error = None /\ result.error = None
       /\ cand0 = files[ExistingFile("ja")]

Elements(seq) == {seq[i] : i \in DOMAIN seq}

C25_TwoInstances ==
    (BothRun /\ SameStart /\ SameRetrieval)
        => /\ result.has_changes = results[1].has_changes
           /\ result.old_hash = results[1].old_hash
           /\ result.new_hash = results[1].new_hash
           /\ result.error = results[1].error
           /\ Len(result.changes) = Len(results[1].changes)
           /\ Elements(result.changes) = Elements(results[1].changes)
           /\ result.changes /= << >> => result.changes[1] = results[1].changes[1]
           /\ result.source = "English Law" /\ results[1].source = "Japanese Law"
           /\ Footprint(files, "en") = Footprint(files, "ja")

\* Both runs found a snapshot and a different document with two changed metadata.
C25_Witness ==
    /\ BothRun /\ SameStart /\ SameRetrieval
    /\ result.has_changes /\ results[1].has_changes
    /\ Len(result.changes) >= 3

(***************************************************************************)
(* C26. Read-before-write: the old_hash of a run's record, when it has     *)
(* been read and when the record is returned, is the fingerprint of the    *)
(* snapshot file as the run found it (None when there was none), the       *)
(* snapshot file keeps that content until the comparison is done, and the  *)
(* metadata entries of a Changed record returned are those of the snapshot *)
(* the run found against the candidate.                                    *)
(***************************************************************************)
C26_ReadBeforeWrite ==
    /\ pc \in {"download", "normalize", "compare"}
          => files[ExistingFile(cur)] = snap0
    /\ pc \in {"download", "return"}
          => result.old_hash = IF snap0 = Absent THEN None ELSE OldFingerprint
    /\ (pc = "return" /\ result.has_changes)
          => LET old == MetadataOf(snap0)
                 new == MetadataOf(cand0)
             IN Elements(result.changes)
                   = {HashChanged}
                     \cup {MetadataChange(key, Get(old, key), Get(new, key)) :
                              key \in ChangedKeys(old, new)}

\* A Changed run with a metadata entry has replaced the snapshot it found and is
\* about to return.
C26_Witness ==
    /\ entry /= "idle" /\ pc = "return" /\ result.error = None
    /\ snap0 /= Absent
    /\ files[ExistingFile(cur)] /= snap0
    /\ result.has_changes /\ Len(result.changes) >= 2
    /\ result.old_hash = OldFingerprint

(***************************************************************************)
(* C27. Snapshot chain: the old_hash of a run is the new_hash of the       *)
(* latest earlier run of the source that returned without error; a run     *)
(* that returned with an error leaves the baseline as it found it, so the  *)
(* next run has the same old_hash; and a first run has the fingerprint of  *)
(* the initial snapshot, None when there was none.                         *)
(***************************************************************************)
\* A diff run of source cur is under way; prev[cur] is the record of the run of
\* that source before it.
Running ==
    pc \in {"download", "normalize", "compare", "unlink_existing", "rename",
            "unlink_temp", "return"}

C27_SnapshotChain ==
    Running
        => /\ (prev[cur] /= NoRecord /\ prev[cur].error = None)
                 => result.old_hash = prev[cur].new_hash
           /\ (prev[cur] /= NoRecord /\ prev[cur].error /= None)
                 => result.old_hash = prev[cur].old_hash
           /\ prev[cur] = NoRecord
                 => /\ snap0 \in InitialSnapshots
                    /\ result.old_hash = IF snap0 = Absent THEN None ELSE OldFingerprint

(***************************************************************************)
(* C28. Terminal states are exclusive: a record a run returns is in        *)
(* exactly one of Unchanged, Changed and Failed; with error set its        *)
(* has_changes is false, and with has_changes true its error is None and   *)
(* its old_hash and new_hash are both present and different.               *)
(***************************************************************************)
Failed(r) == r.error /= None
Changed(r) == r.has_changes
Unchanged(r) == ~r.has_changes /\ r.error = None

C28_TerminalStatesExclusive ==
    Returning
        => /\ Cardinality({state \in {"Unchanged", "Changed", "Failed"} :
                              \/ state = "Unchanged" /\ Unchanged(result)
                              \/ state = "Changed" /\ Changed(result)
                              \/ state = "Failed" /\ Failed(result)}) = 1
           /\ Failed(result) => ~result.has_changes
           /\ Changed(result)
                 => /\ result.error = None
                    /\ result.old_hash /= None /\ result.new_hash /= None
                    /\ result.old_hash /= result.new_hash

(***************************************************************************)
(* C29. Per-source file footprint: no step of a Japanese run creates,      *)
(* changes or deletes the English snapshot or an English temporary file,   *)
(* no step of an English run touches the Japanese ones, and no step of     *)
(* either changes self.cache or the cache file; a method called on its own *)
(* returns with all of these as they were at the call.                     *)
(***************************************************************************)
OtherSource(s) == IF s = "ja" THEN "en" ELSE "ja"

C29_PerSourceFootprint ==
    [][Running
          => /\ Footprint(files', OtherSource(cur)) = Footprint(files, OtherSource(cur))
             /\ cache' = cache
             /\ files'[CacheFile] = files[CacheFile]
             /\ (pc = "return" /\ entry \in Sources)
                   => /\ Footprint(files, OtherSource(cur))
                            = Footprint(dir0, OtherSource(cur))
                      /\ files[CacheFile] = dir0[CacheFile]]_vars

\* check_english_law_diff has returned after replacing the English snapshot, with
\* a Japanese snapshot in the directory.
C29_Witness ==
    /\ ret.kind = "record" /\ ret.of = "en"
    /\ files[ExistingFile("en")] /= dir0[ExistingFile("en")]
    /\ dir0[ExistingFile("ja")] /= Absent
    /\ Footprint(files, "ja") = Footprint(dir0, "ja")

(***************************************************************************)
(* C30. The conversion pipeline stops at the first failure: convert_to_eli *)
(* runs load, build, link, save of the structured document, projection and *)
(* save of the graph in this order and none after a stage that reported    *)
(* failure; it returns True only when all six succeeded, and when it       *)
(* returns False because of an earlier stage the JSON-LD file has not been *)
(* written.                                                                *)
(***************************************************************************)
\* The stages of convert_to_eli, by the method each calls, in their order.
Stages ==
    <<"load_xml_files", "create_structured_xml", "add_translation_links",
      "save_structured_xml", "convert_to_json_ld", "save_json_ld">>

StageOf(method) == CHOOSE i \in DOMAIN Stages : Stages[i] = method

\* What the converter and the output directory show of each stage's success.
Succeeded(i) ==
    CASE i = 1 -> japanese_xml /= NoXml /\ english_xml /= NoXml
      [] i = 2 -> structured_xml /= NoStructured /\ ja0 = japanese_xml
      [] i = 3 -> en0 = english_xml /\ en0 /= NoXml
      [] i = 4 -> eli_files.structured = Written(structured_xml)
      [] i = 5 -> TRUE
      [] i = 6 -> eli_files.jsonld
                     = Written(JsonLd(structured_xml, japanese_xml, english_xml))

C30_PipelineStopsAtFirstFailure ==
    /\ eli_ret.of \in {Stages[i] : i \in DOMAIN Stages}
          => /\ \A i \in 1..(StageOf(eli_ret.of) - 1) : Succeeded(i)
             /\ ~ReportsFailure(eli_ret) => Succeeded(StageOf(eli_ret.of))
             /\ eli_ret.of /= "save_json_ld" => eli_files.jsonld = Absent
    /\ eli_ret = Returned("convert_to_eli", TRUE)
          => \A i \in DOMAIN Stages : Succeeded(i)
    /\ eli_ret = Returned("convert_to_eli", FALSE)
          => /\ eli_files.jsonld = Absent
             /\ \E i \in DOMAIN Stages : ~Succeeded(i)
    /\ eli_files.jsonld /= Absent => eli_files.structured /= Absent

\* convert_to_eli returned False because save_structured_xml did.
C30_Witness ==
    /\ eli_ret = Returned("convert_to_eli", FALSE)
    /\ structured_xml /= NoStructured /\ en0 = english_xml
    /\ eli_files.structured = Absent /\ eli_files.jsonld = Absent

====
